---- MODULE Spec2Model ----
(***************************************************************************)
(* Smart-ML-Framework front end: the pipeline canvas (graph of blocks and  *)
(* edges), the pipeline serializer, the Python code generator with its     *)
(* reverse parser and sync status, and the debounced session auto-save.    *)
(*                                                                         *)
(* Representation.                                                         *)
(*  - A node is [id, blockType, params]; params is a function from the     *)
(*    parameter names that are present to values.  A value is a record     *)
(*    [t, s, n]: a string (t = "str", s its characters), a number          *)
(*    (t = "num", n in hundredths: 0.2 is 20, 100 is 10000), null or NaN.  *)
(*  - An id made by `${type}_${Date.now()}` is the pair <<type, now>>.     *)
(*  - Text is a sequence of lines [key, val].  A marker line               *)
(*    `KEY = literal` has key = KEY and val = the literal as a sequence of *)
(*    characters; every other line has key = "" and its whole content as   *)
(*    one token.  The quote character is written Q.  The parser's regular  *)
(*    expressions are matched per marker line (a match spanning several    *)
(*    lines through \s is outside the model).                              *)
(***************************************************************************)
EXTENDS Integers, Sequences, FiniteSets, TLC

VARIABLES
  nodes,            \* useNodesState: sequence of nodes
  edges,            \* useEdgesState: sequence of [id, source, target]
  clock,            \* Date.now() at the last handler that read it
  selectedNode,     \* <<>> (null) or <<node>>: the node object held by the config panel
  panelView,        \* "output" | "config" | "sessions"
  code,             \* OutputPanel: displayed text
  lastGenerated,    \* OutputPanel: last generated text
  syncStatus,       \* "synced" | "modified" | "error"
  edits,            \* history: number of text edits so far
  lastOp,           \* history: the last connect, run or panel handler, with the state it saw
  currentSessionId, \* 0 (null) or the bound session id
  isInitialLoadRef, \* the programmatic-load guard flag
  saveTimeoutRef,   \* 0 (null) or the id of the last debounce timer set
  saveTimers,       \* pending debounce timers, each with the render it closed over
  guardTimers,      \* number of pending "isInitialLoadRef.current = false" timeouts
  inflight,         \* persistence calls awaiting their response
  mount,            \* the initial-load effect: pos "pending" | "building" | "done", and the build's targets and step
  lastSaved,        \* FALSE (null) or TRUE (a Date)
  isSaving,
  nextSessionId,    \* the id the server gives to the next created session
  epoch,            \* history: number of load / new-session operations so far
  createCalls,      \* history: createSession calls issued in the current epoch
  failures,         \* history: persistence calls that failed in the current epoch
  calls,            \* history: number of persistence calls issued so far
  pristine,         \* history: the graph is what the last loadSession put there
  burst,            \* history: mutations covered by the pending debounce timer
  lastFire,         \* history: the last debounce firing: [muts, issued, empty, sid]
  lastCall          \* history: the last persistence call issued

vars == <<nodes, edges, clock, selectedNode, panelView, code,
          lastGenerated, syncStatus, edits, lastOp, currentSessionId,
          isInitialLoadRef, saveTimeoutRef, saveTimers, guardTimers, inflight,
          mount, lastSaved, isSaving, nextSessionId, epoch, createCalls,
          failures, calls, pristine, burst, lastFire, lastCall>>

panelVars == <<code, lastGenerated, syncStatus>>
timerVars == <<saveTimeoutRef, saveTimers, burst>>
callVars == <<inflight, lastSaved, isSaving, nextSessionId, createCalls,
              failures, calls, lastFire, lastCall>>

(***************************************************************************)
(* Bounds                                                                  *)
(***************************************************************************)
MaxNodes == 2
MaxEdges == 2
MaxClock == 0
MaxSyncNodes == 2
MaxEdits == 2
MaxSessionNodes == 1
MaxCalls == 2
MaxGuardTimers == 2
MaxEpoch == 2
MaxBurst == 2
MaxBuildNodes == 4
MaxBuildEdges == 4

(***************************************************************************)
(* Values                                                                  *)
(***************************************************************************)
Str(s) == [t |-> "str", s |-> s, n |-> 0]
Num(n) == [t |-> "num", s |-> <<>>, n |-> n]
NullV == [t |-> "null", s |-> <<>>, n |-> 0]
NaNV == [t |-> "nan", s |-> <<>>, n |-> 0]
EmptyParams == [k \in {} |-> NullV]

\* params?.key : the value, or undefined (modelled as <<>>) when absent
Has(params, k) == k \in DOMAIN params
\* JavaScript truthiness of params?.key, for `params?.key || default`
Truthy(params, k) ==
  /\ Has(params, k)
  /\ \/ params[k].t = "str" /\ params[k].s # <<>>
     \/ params[k].t = "num" /\ params[k].n # 0
\* params?.key is neither undefined nor null, for `params?.key ?? default`
NonNullish(params, k) == Has(params, k) /\ params[k].t # "null"

\* { ...a, ...b }
Merge(a, b) ==
  [k \in (DOMAIN a) \cup (DOMAIN b) |-> IF k \in DOMAIN b THEN b[k] ELSE a[k]]

\* { ...params, [key]: value }
WithKey(params, key, value) ==
  [k \in (DOMAIN params) \cup {key} |-> IF k = key THEN value ELSE params[k]]

RECURSIVE SeqToSet(_)
SeqToSet(s) == IF s = <<>> THEN {} ELSE {Head(s)} \cup SeqToSet(Tail(s))

Filter(s, Test(_)) == SelectSeq(s, Test)

Map(s, F(_)) == [i \in 1..Len(s) |-> F(s[i])]

NodeIds(ns) == {ns[i].id : i \in DOMAIN ns}

(***************************************************************************)
(* serializePipeline                                                       *)
(***************************************************************************)
RECURSIVE inputsMapUnshifts(_, _)
inputsMapUnshifts(es, target) ==
  IF es = <<>> THEN <<>>
  ELSE inputsMapUnshifts(Tail(es), target)
       \o (IF Head(es).target = target THEN <<Head(es).source>> ELSE <<>>)

\* inputsMap[target]: the sources of the edges into target, in edge order
RECURSIVE inputsMap(_, _)
inputsMap(es, target) ==
  IF es = <<>> THEN <<>>
  ELSE (IF Head(es).target = target THEN <<Head(es).source>> ELSE <<>>)
       \o inputsMap(Tail(es), target)

connectedNodeIds(es) ==
  {es[i].source : i \in DOMAIN es} \cup {es[i].target : i \in DOMAIN es}

SerializedBlock(node, es) ==
  [id |-> node.id, type |-> node.blockType, params |-> node.params,
   inputs |-> inputsMap(es, node.id)]

serializePipelineOmitsFilter(ns, es) ==
  Map(ns, LAMBDA node : SerializedBlock(node, es))

serializePipelineSourcesOnly(ns, es) ==
  Map(Filter(ns, LAMBDA node : \E i \in DOMAIN es : es[i].source = node.id),
      LAMBDA node : SerializedBlock(node, es))

serializePipeline(ns, es) ==
  Map(Filter(ns, LAMBDA node : node.id \in connectedNodeIds(es)),
      LAMBDA node : SerializedBlock(node, es))

(***************************************************************************)
(* generatePythonCode: the dependency sort                                 *)
(***************************************************************************)
\* nodeMap.get(id): new Map(nodes.map(n => [n.id, n])) keeps the last node of an id
nodeMap(ns, id) ==
  LET idx == {i \in DOMAIN ns : ns[i].id = id}
  IN ns[CHOOSE i \in idx : \A j \in idx : j <= i]

\* visit(nodeId) with the closure's `visited` and `sorted` threaded as st
RECURSIVE visit(_, _, _, _)
RECURSIVE visitInputs(_, _, _, _)
visitInputs(inputs, st, ns, es) ==
  IF inputs = <<>> THEN st
  ELSE visitInputs(Tail(inputs), visit(Head(inputs), st, ns, es), ns, es)

visitAppendsFirst(nodeId, st, ns, es) ==
  IF nodeId \in st.visited THEN st
  ELSE LET marked == [visited |-> st.visited \cup {nodeId},
                      sorted |-> IF nodeId \in NodeIds(ns)
                                 THEN Append(st.sorted, nodeMap(ns, nodeId))
                                 ELSE st.sorted]
       IN visitInputs(inputsMap(es, nodeId), marked, ns, es)

visitPushesAgain(nodeId, st, ns, es) ==
  LET after == IF nodeId \in st.visited THEN st
               ELSE visitInputs(inputsMap(es, nodeId),
                                [st EXCEPT !.visited = @ \cup {nodeId}], ns, es)
  IN IF nodeId \in NodeIds(ns)
     THEN [after EXCEPT !.sorted = Append(@, nodeMap(ns, nodeId))]
     ELSE after

visit(nodeId, st, ns, es) ==
  IF nodeId \in st.visited THEN st
  ELSE LET marked == [st EXCEPT !.visited = @ \cup {nodeId}]
           after == visitInputs(inputsMap(es, nodeId), marked, ns, es)
       IN IF nodeId \in NodeIds(ns)
          THEN [after EXCEPT !.sorted = Append(@, nodeMap(ns, nodeId))]
          ELSE after

\* nodes.forEach(n => visit(n.id)); the result is `sorted`
RECURSIVE visitAll(_, _, _, _)
visitAll(rest, st, ns, es) ==
  IF rest = <<>> THEN st
  ELSE visitAll(Tail(rest), visit(Head(rest).id, st, ns, es), ns, es)

sorted(ns, es) == visitAll(ns, [visited |-> {}, sorted |-> <<>>], ns, es).sorted

(***************************************************************************)
(* Text: number and string literals                                        *)
(***************************************************************************)
DigitChars == <<"0", "1", "2", "3", "4", "5", "6", "7", "8", "9">>
Digits == {DigitChars[i] : i \in DOMAIN DigitChars}
DigitValue(c) == (CHOOSE i \in DOMAIN DigitChars : DigitChars[i] = c) - 1

RECURSIVE DecimalOf(_)
DecimalOf(n) ==
  IF n < 10 THEN <<DigitChars[n + 1]>>
  ELSE DecimalOf(n \div 10) \o <<DigitChars[(n % 10) + 1]>>

\* String(number) for a non-negative number held in hundredths
NumberToString(h) ==
  LET frac == h % 100
  IN DecimalOf(h \div 100) \o
     (IF frac = 0 THEN <<>>
      ELSE IF frac % 10 = 0 THEN <<".", DigitChars[(frac \div 10) + 1]>>
      ELSE <<".", DigitChars[(frac \div 10) + 1], DigitChars[(frac % 10) + 1]>>)

\* `${value}` in a template literal
Interpolate(v) ==
  CASE v.t = "str" -> v.s
    [] v.t = "num" -> NumberToString(v.n)
    [] v.t = "null" -> <<"null">>
    [] v.t = "nan" -> <<"NaN">>

\* the longest prefix of s whose characters are all in set
RECURSIVE PrefixIn(_, _)
PrefixIn(s, set) ==
  IF s = <<>> \/ Head(s) \notin set THEN <<>>
  ELSE <<Head(s)>> \o PrefixIn(Tail(s), set)

RECURSIVE DigitsValue(_, _)
DigitsValue(ds, acc) ==
  IF ds = <<>> THEN acc ELSE DigitsValue(Tail(ds), acc * 10 + DigitValue(Head(ds)))

\* parseInt of a string of digits, in hundredths
parseInt(ds) == Num(100 * DigitsValue(ds, 0))

\* parseFloat of a string of digits and dots, in hundredths (two decimals kept)
parseFloat(s) ==
  LET int == PrefixIn(s, Digits)
      rest == SubSeq(s, Len(int) + 1, Len(s))
      frac == IF rest # <<>> /\ Head(rest) = "." THEN PrefixIn(Tail(rest), Digits)
              ELSE <<>>
      f1 == IF Len(frac) >= 1 THEN DigitValue(frac[1]) ELSE 0
      f2 == IF Len(frac) >= 2 THEN DigitValue(frac[2]) ELSE 0
  IN IF int = <<>> /\ frac = <<>> THEN NaNV
     ELSE Num(100 * DigitsValue(int, 0) + 10 * f1 + f2)

Line(text) == [key |-> "", val |-> <<text>>]
Marker(key, val) == [key |-> key, val |-> val]
Quoted(s) == <<"Q">> \o s \o <<"Q">>

(***************************************************************************)
(* generatePythonCode: the templates                                       *)
(***************************************************************************)
DefaultFilePath == <<"path/to/data.csv">>
DefaultTarget == <<"target">>
DefaultTask == <<"classification">>
DefaultAlgorithm == <<"random_forest">>
DefaultStrategy == <<"concat">>
DefaultJoinKey == <<"id">>
DefaultVoting == <<"hard">>
DefaultTestSize == 20
DefaultNEstimators == 10000
DefaultMaxDepth == 1000

\* params?.key || dflt
OrDefault(params, k, dflt) ==
  IF Truthy(params, k) THEN Interpolate(params[k]) ELSE dflt
\* params?.key ?? dflt
NullishDefault(params, k, dflt) ==
  IF NonNullish(params, k) THEN Interpolate(params[k]) ELSE NumberToString(dflt)

HeaderLines ==
  << Line("# =========================================="),
     Line("# ML Pipeline - Auto-generated Python Code"),
     Line("# Edit CONFIG values to update blocks"),
     Line("# =========================================="),
     Line(""),
     Line("import pandas as pd"),
     Line("from sklearn.model_selection import train_test_split"),
     Line("from sklearn.ensemble import RandomForestClassifier, RandomForestRegressor"),
     Line("from sklearn.ensemble import VotingClassifier, VotingRegressor"),
     Line("from sklearn.metrics import accuracy_score, precision_score, recall_score, f1_score"),
     Line("from sklearn.metrics import mean_squared_error, mean_absolute_error, r2_score"),
     Line("") >>

\* the task type a block leaves in the generator's `taskType` variable
TaskAfter(node, taskType) ==
  IF node.blockType \in {"model", "voting_ensemble"}
  THEN OrDefault(node.params, "task", DefaultTask)
  ELSE taskType

\* the lines one `case` of the switch pushes; taskType is the value on entry
BlockLines(node, taskType) ==
  LET params == node.params
      task == TaskAfter(node, taskType)
  IN CASE node.blockType = "dataset" ->
            << Line("# === DATASET CONFIG ==="),
               Marker("FILE_PATH", Quoted(OrDefault(params, "file_path", DefaultFilePath))),
               Marker("TARGET_COLUMN", Quoted(OrDefault(params, "target", DefaultTarget))),
               Line(""),
               Line("df = pd.read_csv(FILE_PATH)"),
               Line("X = df.drop(columns=[TARGET_COLUMN])"),
               Line("y = df[TARGET_COLUMN]"),
               Line("print(f'Loaded {len(df)} rows')"),
               Line("") >>
       [] node.blockType = "split" ->
            << Line("# === SPLIT CONFIG ==="),
               Marker("TEST_SIZE", NullishDefault(params, "test_size", DefaultTestSize)),
               Line(""),
               Line("X_train, X_test, y_train, y_test = train_test_split("),
               Line("    X, y, test_size=TEST_SIZE, random_state=42)"),
               Line("") >>
       [] node.blockType = "dataset_merge" ->
            << Line("# === MERGE DATASETS ===") >> \o
            (IF OrDefault(params, "strategy", DefaultStrategy) = DefaultStrategy
             THEN << Line("# Concatenate multiple DataFrames vertically"),
                     Line("# df = pd.concat([df1, df2, ...], ignore_index=True)") >>
             ELSE << Marker("JOIN_KEY", Quoted(OrDefault(params, "join_key", DefaultJoinKey))),
                     Line("# Merge DataFrames on key column"),
                     Line("# df = pd.merge(df1, df2, on=JOIN_KEY, how='inner')") >>) \o
            << Line("# X = df.drop(columns=[TARGET_COLUMN])"),
               Line("# y = df[TARGET_COLUMN]"),
               Line("") >>
       [] node.blockType = "feature_pipeline" ->
            << Line("# === FEATURE PREPROCESSING ==="),
               Line("from sklearn.preprocessing import StandardScaler, OneHotEncoder"),
               Line("from sklearn.compose import ColumnTransformer"),
               Line(""),
               Line("num_cols = X_train.select_dtypes(include='number').columns"),
               Line("cat_cols = X_train.select_dtypes(exclude='number').columns"),
               Line("preprocessor = ColumnTransformer(["),
               Line("    ('num', StandardScaler(), num_cols),"),
               Line("    ('cat', OneHotEncoder(handle_unknown='ignore', sparse_output=False), cat_cols)"),
               Line("])"),
               Line("X_train = preprocessor.fit_transform(X_train)"),
               Line("X_test = preprocessor.transform(X_test)"),
               Line("") >>
       [] node.blockType = "model" ->
            << Line("# === MODEL CONFIG ==="),
               Marker("TASK_TYPE", Quoted(task)),
               Marker("ALGORITHM", Quoted(OrDefault(params, "algorithm", DefaultAlgorithm))),
               Marker("N_ESTIMATORS", NullishDefault(params, "n_estimators", DefaultNEstimators)),
               Marker("MAX_DEPTH", NullishDefault(params, "max_depth", DefaultMaxDepth)),
               Line(""),
               Line(IF task = DefaultTask THEN "model = RandomForestClassifier("
                                          ELSE "model = RandomForestRegressor("),
               Line("    n_estimators=N_ESTIMATORS,"),
               Line("    max_depth=MAX_DEPTH,"),
               Line("    random_state=42)"),
               Line("") >>
       [] node.blockType = "voting_ensemble" ->
            \* params.algorithms is taken at its default list
            << Line("# === VOTING ENSEMBLE CONFIG ==="),
               Marker("TASK_TYPE", Quoted(task)),
               Marker("VOTING", Quoted(OrDefault(params, "voting", DefaultVoting))),
               Line(""),
               Line("# Define estimators for ensemble"),
               Line("estimators = ["),
               Line("    ('random_forest', ...),  # Configure random forest"),
               Line("    ('gradient_boosting', ...),  # Configure gradient boosting"),
               Line("    ('knn', ...),  # Configure knn"),
               Line("]"),
               Line(""),
               Line(IF task = DefaultTask
                    THEN "model = VotingClassifier(estimators=estimators, voting=VOTING)"
                    ELSE "model = VotingRegressor(estimators=estimators)"),
               Line("") >>
       [] node.blockType = "trainer" ->
            << Line("# === TRAINING ==="),
               Line("model.fit(X_train, y_train)"),
               Line("print('Training complete!')"),
               Line("") >>
       [] node.blockType = "metrics" ->
            << Line("# === EVALUATION ==="),
               Line("y_pred = model.predict(X_test)"),
               Line(IF taskType = DefaultTask
                    THEN "print(f'Accuracy: {accuracy_score(y_test, y_pred):.4f}')"
                    ELSE "print(f'R2: {r2_score(y_test, y_pred):.4f}')"),
               Line("") >>
       [] OTHER -> <<>>

RECURSIVE SectionLines(_, _)
SectionLines(blocks, taskType) ==
  IF blocks = <<>> THEN <<>>
  ELSE BlockLines(Head(blocks), taskType)
       \o SectionLines(Tail(blocks), TaskAfter(Head(blocks), taskType))

generatePythonCode(ns, es) ==
  IF Len(ns) = 0 THEN <<>>
  ELSE HeaderLines \o SectionLines(sorted(ns, es), DefaultTask)

(***************************************************************************)
(* parseCodeToConfig                                                       *)
(***************************************************************************)
\* ["']([^"']+)["'] at the start of a literal: the captured characters, or
\* <<>> when the literal does not match
QuotedCapture(val) ==
  IF val = <<>> \/ Head(val) # "Q" THEN <<>>
  ELSE LET body == PrefixIn(Tail(val), (SeqToSet(val) \ {"Q"}))
       IN IF body # <<>> /\ Len(val) >= Len(body) + 2 /\ val[Len(body) + 2] = "Q"
          THEN body ELSE <<>>

\* code.match(/KEY\s*=\s*(pattern)/): the capture of the first line of the
\* text where the pattern matches, or <<>> when there is no match
Match(text, key, Capture(_)) ==
  LET hits == {i \in DOMAIN text : text[i].key = key /\ Capture(text[i].val) # <<>>}
  IN IF hits = {} THEN <<>>
     ELSE Capture(text[CHOOSE i \in hits : \A j \in hits : i <= j].val)

DigitsAndDots(val) == PrefixIn(val, Digits \cup {"."})
DigitsOnly(val) == PrefixIn(val, Digits)

\* the patch of one block type: the keys whose marker matched
Patch(pairs) ==
  LET present == {p \in pairs : p[2] # <<>>}
  IN [k \in {p[1] : p \in present} |->
        (CHOOSE p \in present : p[1] = k)[3]]

parseCodeToConfig(text) ==
  LET filePathMatch == Match(text, "FILE_PATH", QuotedCapture)
      targetMatch == Match(text, "TARGET_COLUMN", QuotedCapture)
      testSizeMatch == Match(text, "TEST_SIZE", DigitsAndDots)
      taskMatch == Match(text, "TASK_TYPE", QuotedCapture)
      nEstMatch == Match(text, "N_ESTIMATORS", DigitsOnly)
      maxDepthMatch == Match(text, "MAX_DEPTH", DigitsOnly)
  IN [dataset |-> Patch({<<"file_path", filePathMatch, Str(filePathMatch)>>,
                         <<"target", targetMatch, Str(targetMatch)>>}),
      split |-> Patch({<<"test_size", testSizeMatch, parseFloat(testSizeMatch)>>}),
      model |-> Patch({<<"task", taskMatch, Str(taskMatch)>>,
                       <<"n_estimators", nEstMatch, parseInt(nEstMatch)>>,
                       <<"max_depth", maxDepthMatch, parseInt(maxDepthMatch)>>})]

(***************************************************************************)
(* PipelineCanvas: the effects that follow a render                        *)
(***************************************************************************)
NoOp == [op |-> "", nodes |-> <<>>, edges |-> <<>>, text |-> <<>>, outcome |-> ""]
Op(name) == [NoOp EXCEPT !.op = name]
OpOn(name, outcome) ==
  [op |-> name, nodes |-> nodes, edges |-> edges, text |-> code, outcome |-> outcome]

OutputPanelEffectKeepsText(ns, es, view) ==
  LET generated == IF view = "output" THEN generatePythonCode(ns, es) ELSE <<>>
  IN /\ lastGenerated' = generated
     /\ code' = IF view = "output" /\ panelView = "output" THEN code ELSE generated
     /\ syncStatus' = "synced"

\* OutputPanel's generation effect, run when it mounts and whenever nodes or
\* edges change; the panel is mounted only in the "output" view
OutputPanelEffect(ns, es, view) ==
  LET generated == IF view = "output" THEN generatePythonCode(ns, es) ELSE <<>>
  IN /\ lastGenerated' = generated
     /\ code' = generated
     /\ syncStatus' = "synced"

\* setTimeout gives an id that no pending timer and no stored ref holds
FreshTimer ==
  LET used == {t.tid : t \in saveTimers} \cup {saveTimeoutRef}
  IN CHOOSE n \in 1..(Cardinality(used) + 1) :
       n \notin used /\ \A m \in 1..(Cardinality(used) + 1) : m \notin used => n <= m

Bump(n) == IF n < MaxBurst THEN n + 1 ELSE MaxBurst

\* the auto-save effect, run after a render in which nodes or edges changed:
\* ns, es and sid are the values of that render, which saveSession closes over
AutoSaveEffectKeepsTimer(ns, es, sid, user) ==
  IF isInitialLoadRef'
  THEN /\ saveTimers' = {t \in saveTimers : t.tid # saveTimeoutRef}
       /\ burst' = 0
       /\ UNCHANGED saveTimeoutRef
  ELSE /\ saveTimers' = saveTimers \cup
            {[tid |-> FreshTimer, nodes |-> ns, edges |-> es, sid |-> sid]}
       /\ saveTimeoutRef' = FreshTimer
       /\ burst' = IF user THEN Bump(burst) ELSE burst

AutoSaveEffect(ns, es, sid, user) ==
  LET cleared == {t \in saveTimers : t.tid # saveTimeoutRef}
  IN IF isInitialLoadRef'
     THEN /\ saveTimers' = cleared
          /\ burst' = 0
          /\ UNCHANGED saveTimeoutRef
     ELSE /\ saveTimers' = cleared \cup
               {[tid |-> FreshTimer, nodes |-> ns, edges |-> es, sid |-> sid]}
          /\ saveTimeoutRef' = FreshTimer
          /\ burst' = IF user
                      THEN Bump(IF cleared = saveTimers THEN 0 ELSE burst)
                      ELSE 0

\* a user mutation of nodes or edges from an event handler: the state
\* updates are rendered, then both effects run
UserMutation(ns, es, view) ==
  /\ nodes' = ns
  /\ edges' = es
  /\ panelView' = view
  /\ pristine' = FALSE
  /\ OutputPanelEffect(ns, es, view)
  /\ UNCHANGED <<currentSessionId, isInitialLoadRef>>
  /\ AutoSaveEffect(ns, es, currentSessionId, TRUE)

(***************************************************************************)
(* PipelineCanvas: graph handlers                                          *)
(***************************************************************************)
\* the default params addBlock gives a block of the type
DefaultParams(type) ==
  CASE type = "model" ->
         [k \in {"task", "algorithm", "n_estimators", "max_depth"} |->
            CASE k = "task" -> Str(DefaultTask)
              [] k = "algorithm" -> Str(DefaultAlgorithm)
              [] k = "n_estimators" -> Num(DefaultNEstimators)
              [] k = "max_depth" -> Num(DefaultMaxDepth)]
    [] type = "split" -> [k \in {"test_size"} |-> Num(DefaultTestSize)]
    [] type = "trainer" -> [k \in {"fit_params"} |-> Str(<<"{}">>)]
    [] type = "voting_ensemble" ->
         [k \in {"task", "voting"} |->
            IF k = "task" THEN Str(DefaultTask) ELSE Str(DefaultVoting)]
    [] type = "dataset_merge" ->
         [k \in {"strategy", "join_key"} |->
            IF k = "strategy" THEN Str(DefaultStrategy) ELSE Str(<<>>)]
    [] OTHER -> EmptyParams

\* addBlock(type) from the palette, at time now
addBlock(type, now) ==
  /\ now >= clock
  /\ clock' = now
  /\ UserMutation(
       Append(nodes, [id |-> <<type, now>>, blockType |-> type,
                      params |-> DefaultParams(type)]),
       edges, panelView)
  /\ lastOp' = NoOp
  /\ UNCHANGED <<selectedNode, guardTimers, mount, epoch>>
  /\ UNCHANGED <<callVars, edits>>

\* the response of downloadDataset for a file with one feature column and
\* one row; target is the suggested target, <<>> when there is none
DownloadedParams(target) ==
  [k \in {"file_path", "filename", "columns", "rows", "target",
          "suggested_task", "column_analysis"} |->
     CASE k = "file_path" -> Str(<<"a.csv">>)
       [] k = "filename" -> Str(<<"a.csv">>)
       [] k = "columns" -> Str(<<"[x,y]">>)
       [] k = "rows" -> Num(100)
       [] k = "target" -> Str(target)
       [] k = "suggested_task" -> Str(DefaultTask)
       [] k = "column_analysis" -> Str(<<"{}">>)]

\* handleDownloadDataset(url), from the await on: the download succeeded at
\* time now and a configured dataset block is added
handleDownloadDataset(target, now) ==
  /\ now >= clock
  /\ clock' = now
  /\ UserMutation(
       Append(nodes, [id |-> <<"dataset", now>>, blockType |-> "dataset",
                      params |-> DownloadedParams(target)]),
       edges, panelView)
  /\ lastOp' = NoOp
  /\ UNCHANGED <<selectedNode, guardTimers, mount, epoch>>
  /\ UNCHANGED <<callVars, edits>>

\* reactflow's addEdge: a connection that already exists is not added again
addEdge(source, target, eds) ==
  IF \E i \in DOMAIN eds : eds[i].source = source /\ eds[i].target = target
  THEN eds
  ELSE Append(eds, [id |-> <<source, target>>, source |-> source, target |-> target])

onConnect(source, target) ==
  /\ source \in NodeIds(nodes)
  /\ target \in NodeIds(nodes)
  /\ lastOp' = OpOn("connect", "")
  /\ UserMutation(nodes, addEdge(source, target, edges), panelView)
  /\ UNCHANGED <<clock, selectedNode, guardTimers, mount, epoch>>
  /\ UNCHANGED <<callVars, edits>>

\* onEdgeClick: delete the clicked edge
onEdgeClick(i) ==
  /\ i \in DOMAIN edges
  /\ UserMutation(nodes, Filter(edges, LAMBDA e : e.id # edges[i].id), panelView)
  /\ lastOp' = OpOn("disconnect", "")
  /\ UNCHANGED <<clock, selectedNode, guardTimers, mount, epoch>>
  /\ UNCHANGED <<callVars, edits>>

\* onNodeClick: select the node and open the config panel (OutputPanel unmounts)
onNodeClick(i) ==
  /\ i \in DOMAIN nodes
  /\ selectedNode' = <<nodes[i]>>
  /\ panelView' = "config"
  /\ OutputPanelEffect(nodes, edges, "config")
  /\ lastOp' = NoOp
  /\ UNCHANGED <<nodes, edges, clock, currentSessionId, isInitialLoadRef,
                 guardTimers, mount, epoch, pristine>>
  /\ UNCHANGED timerVars
  /\ UNCHANGED <<callVars, edits>>

\* onPaneClick: deselect; the config panel gives way to the output panel
onPaneClick ==
  /\ selectedNode' = <<>>
  /\ panelView' = IF panelView = "config" THEN "output" ELSE panelView
  /\ IF panelView = "config"
     THEN OutputPanelEffect(nodes, edges, "output")
     ELSE UNCHANGED panelVars
  /\ lastOp' = NoOp
  /\ UNCHANGED <<nodes, edges, clock, currentSessionId, isInitialLoadRef,
                 guardTimers, mount, epoch, pristine>>
  /\ UNCHANGED timerVars
  /\ UNCHANGED <<callVars, edits>>

deleteNodeKeepsEdges(nodeId) ==
  /\ UserMutation(Filter(nodes, LAMBDA n : n.id # nodeId), edges, "output")
  /\ selectedNode' = <<>>
  /\ lastOp' = OpOn("delete", "")
  /\ UNCHANGED <<clock, guardTimers, mount, epoch>>
  /\ UNCHANGED <<callVars, edits>>

\* deleteNode(nodeId), the config panel's onDelete
deleteNode(nodeId) ==
  /\ UserMutation(Filter(nodes, LAMBDA n : n.id # nodeId),
                  Filter(edges, LAMBDA e : e.source # nodeId /\ e.target # nodeId),
                  "output")
  /\ selectedNode' = <<>>
  /\ lastOp' = OpOn("delete", "")
  /\ UNCHANGED <<clock, guardTimers, mount, epoch>>
  /\ UNCHANGED <<callVars, edits>>

\* BlockConfigPanel.updateParam(key, value) -> updateNode(updatedNode)
updateNode(updatedNode) ==
  /\ UserMutation(Map(nodes, LAMBDA n : IF n.id = updatedNode.id THEN updatedNode ELSE n),
                  edges, panelView)
  /\ selectedNode' = <<updatedNode>>
  /\ lastOp' = NoOp
  /\ UNCHANGED <<clock, guardTimers, mount, epoch>>
  /\ UNCHANGED <<callVars, edits>>

updateParam(key, value) ==
  /\ panelView = "config"
  /\ selectedNode # <<>>
  /\ updateNode([selectedNode[1] EXCEPT !.params = WithKey(@, key, value)])

runOutcomeSubmitsUnchecked ==
  IF Len(nodes) = 0 THEN "alert: add a block" ELSE "runPipeline"

\* run: the local checks, then runPipeline(pipeline); the outcome is the
\* alert shown or the call made
runOutcome ==
  IF Len(nodes) = 0 THEN "alert: add a block"
  ELSE LET pipeline == serializePipeline(nodes, edges)
           datasetBlocks == Filter(pipeline, LAMBDA b : b.type = "dataset")
       IN IF Len(pipeline) = 0 THEN "alert: no connected blocks"
          ELSE IF Len(datasetBlocks) = 0 THEN "alert: no dataset block"
          ELSE IF \E i \in DOMAIN datasetBlocks :
                    \/ ~Truthy(datasetBlocks[i].params, "file_path")
                    \/ ~Truthy(datasetBlocks[i].params, "target")
          THEN "alert: dataset requires file_path and target"
          ELSE "runPipeline"

run ==
  /\ lastOp' = OpOn("run", runOutcome)
  /\ IF runOutcome = "runPipeline"
     THEN /\ selectedNode' = <<>>
          /\ panelView' = "output"
          /\ IF panelView = "output" THEN UNCHANGED panelVars
             ELSE OutputPanelEffect(nodes, edges, "output")
     ELSE UNCHANGED <<selectedNode, panelView, code, lastGenerated, syncStatus>>
  /\ UNCHANGED <<nodes, edges, clock, edits, currentSessionId, isInitialLoadRef,
                 guardTimers, mount, epoch, pristine>>
  /\ UNCHANGED timerVars
  /\ UNCHANGED <<callVars, edits>>

(***************************************************************************)
(* OutputPanel: edit, apply, reset                                         *)
(***************************************************************************)
\* the textarea's onChange: setCode(newCode); setSyncStatus("modified")
handleCodeChange(newCode) ==
  /\ panelView = "output"
  /\ code' = newCode
  /\ syncStatus' = "modified"
  /\ edits' = edits + 1
  /\ lastOp' = Op("edit")
  /\ UNCHANGED <<nodes, edges, clock, selectedNode, panelView,
                 lastGenerated, currentSessionId, isInitialLoadRef, guardTimers,
                 mount, epoch, pristine>>
  /\ UNCHANGED timerVars
  /\ UNCHANGED callVars

\* the text with the literal of line i replaced
WithLiteral(text, i, lit) == [text EXCEPT ![i].val = lit]

\* the updater handleApplyChanges passes to onUpdateNodes, for one node
ApplyPatchReplaces(node, config) ==
  LET bt == node.blockType
  IN IF bt \in {"dataset", "split", "model"} /\ DOMAIN config[bt] # {}
     THEN [node EXCEPT !.params = config[bt]]
     ELSE node

ApplyPatch(node, config) ==
  LET bt == node.blockType
  IN IF bt \in {"dataset", "split", "model"} /\ DOMAIN config[bt] # {}
     THEN [node EXCEPT !.params = Merge(node.params, config[bt])]
     ELSE node

\* String.prototype.match, parseFloat and parseInt never throw, so the
\* catch branch of handleApplyChanges has no way in
parseThrows(text) == FALSE

\* "Apply to Blocks", shown while the status is "modified"
handleApplyChanges ==
  /\ panelView = "output"
  /\ syncStatus = "modified"
  /\ lastOp' = OpOn("apply", "")
  /\ IF parseThrows(code)
     THEN /\ syncStatus' = "error"
          /\ UNCHANGED <<nodes, edges, panelView, code, lastGenerated,
                         currentSessionId, isInitialLoadRef, pristine>>
          /\ UNCHANGED timerVars
     ELSE UserMutation(
            Map(nodes, LAMBDA node : ApplyPatch(node, parseCodeToConfig(code))),
            edges, panelView)
  /\ UNCHANGED <<clock, selectedNode, guardTimers, mount, epoch>>
  /\ UNCHANGED <<callVars, edits>>

handleResetKeepsText ==
  /\ panelView = "output"
  /\ syncStatus = "modified"
  /\ syncStatus' = "synced"
  /\ lastOp' = OpOn("reset", "")
  /\ UNCHANGED <<nodes, edges, clock, selectedNode, panelView, code,
                 lastGenerated, currentSessionId, isInitialLoadRef, guardTimers,
                 mount, epoch, pristine>>
  /\ UNCHANGED timerVars
  /\ UNCHANGED <<callVars, edits>>

\* "Reset", shown while the status is "modified"
handleReset ==
  /\ panelView = "output"
  /\ syncStatus = "modified"
  /\ code' = lastGenerated
  /\ syncStatus' = "synced"
  /\ lastOp' = OpOn("reset", "")
  /\ UNCHANGED <<nodes, edges, clock, selectedNode, panelView,
                 lastGenerated, currentSessionId, isInitialLoadRef, guardTimers,
                 mount, epoch, pristine>>
  /\ UNCHANGED timerVars
  /\ UNCHANGED <<callVars, edits>>

(***************************************************************************)
(* PipelineCanvas: sessions and auto-save                                  *)
(***************************************************************************)
\* session records the persistence service holds before the page opens
SavedSessions ==
  { [id |-> 1,
     nodes |-> << [id |-> <<"dataset", 0>>, blockType |-> "dataset",
                   params |-> EmptyParams] >>,
     edges |-> <<>>],
    [id |-> 2, nodes |-> <<>>, edges |-> <<>>] }
FirstNewSessionId == 3

\* the initial-load effect has not run yet
NotMounted == [pos |-> "pending", step |-> 0, nodes |-> <<>>, edges |-> <<>>]

\* the toolbar's Sessions button
toggleSessions ==
  /\ panelView' = IF panelView = "sessions" THEN "output" ELSE "sessions"
  /\ OutputPanelEffect(nodes, edges, panelView')
  /\ lastOp' = NoOp
  /\ UNCHANGED <<nodes, edges, clock, selectedNode, currentSessionId,
                 isInitialLoadRef, guardTimers, mount, epoch, pristine>>
  /\ UNCHANGED timerVars
  /\ UNCHANGED <<callVars, edits>>

\* the body of loadSession(session); flagAtRender is the guard flag when the
\* render that follows the caller runs its effects
LoadSessionBody(session, flagAtRender) ==
  /\ guardTimers < MaxGuardTimers
  /\ epoch < MaxEpoch
  /\ isInitialLoadRef' = flagAtRender
  /\ currentSessionId' = session.id
  /\ nodes' = session.nodes
  /\ edges' = session.edges
  /\ selectedNode' = <<>>
  /\ panelView' = "output"
  /\ guardTimers' = guardTimers + 1
  /\ OutputPanelEffect(session.nodes, session.edges, "output")
  /\ AutoSaveEffect(session.nodes, session.edges, session.id, FALSE)
  /\ epoch' = epoch + 1
  /\ createCalls' = 0
  /\ failures' = 0
  /\ pristine' = TRUE
  /\ lastOp' = NoOp
  /\ UNCHANGED <<clock, edits, inflight, lastSaved, isSaving, nextSessionId,
                 calls, lastFire, lastCall>>

\* loadSession(session) called by the session panel
loadSession(session) ==
  /\ panelView = "sessions"
  /\ LoadSessionBody(session, TRUE)
  /\ UNCHANGED mount

\* loadLatestSession, when getLatestSession resolves with a session:
\* loadSession(session), then `finally` clears the guard flag before the render
loadLatestSession(session) ==
  /\ mount.pos = "pending"
  /\ mount' = [mount EXCEPT !.pos = "done"]
  /\ LoadSessionBody(session, FALSE)

\* loadLatestSession, when there is no session or the request fails
loadLatestSessionNone ==
  /\ mount.pos = "pending"
  /\ mount' = [mount EXCEPT !.pos = "done"]
  /\ isInitialLoadRef' = FALSE
  /\ lastOp' = NoOp
  /\ UNCHANGED <<nodes, edges, clock, selectedNode, panelView,
                 currentSessionId, guardTimers, epoch, pristine>>
  /\ UNCHANGED panelVars
  /\ UNCHANGED timerVars
  /\ UNCHANGED <<callVars, edits>>

\* createNewSession, the session panel's onNewSession
createNewSession ==
  /\ panelView = "sessions"
  /\ guardTimers < MaxGuardTimers
  /\ epoch < MaxEpoch
  /\ isInitialLoadRef' = TRUE
  /\ currentSessionId' = 0
  /\ nodes' = <<>>
  /\ edges' = <<>>
  /\ selectedNode' = <<>>
  /\ panelView' = "output"
  /\ guardTimers' = guardTimers + 1
  /\ OutputPanelEffect(<<>>, <<>>, "output")
  /\ AutoSaveEffect(<<>>, <<>>, 0, FALSE)
  /\ epoch' = epoch + 1
  /\ createCalls' = 0
  /\ failures' = 0
  /\ pristine' = FALSE
  /\ lastOp' = NoOp
  /\ UNCHANGED <<clock, edits, mount, inflight, lastSaved, isSaving,
                 nextSessionId, calls, lastFire, lastCall>>

\* setTimeout(() => { isInitialLoadRef.current = false; }, 500) fires
guardTimeout ==
  /\ guardTimers > 0
  /\ guardTimers' = guardTimers - 1
  /\ isInitialLoadRef' = FALSE
  /\ lastOp' = NoOp
  /\ UNCHANGED <<nodes, edges, clock, selectedNode, panelView,
                 currentSessionId, mount, epoch, pristine>>
  /\ UNCHANGED panelVars
  /\ UNCHANGED timerVars
  /\ UNCHANGED <<callVars, edits>>

\* the initial-load effect when the page is opened from the analysis flow:
\* the guard flag is set and animatePipelineBuild(targetNodes, targetEdges)
\* empties the graph and schedules addNext
animatePipelineBuild(targetNodes, targetEdges) ==
  /\ mount.pos = "pending"
  /\ mount' = [pos |-> "building", step |-> 0,
               nodes |-> targetNodes, edges |-> targetEdges]
  /\ isInitialLoadRef' = TRUE
  /\ nodes' = <<>>
  /\ edges' = <<>>
  /\ OutputPanelEffect(<<>>, <<>>, panelView)
  /\ AutoSaveEffect(<<>>, <<>>, currentSessionId, FALSE)
  /\ pristine' = FALSE
  /\ lastOp' = NoOp
  /\ UNCHANGED <<clock, selectedNode, panelView, currentSessionId, guardTimers, epoch>>
  /\ UNCHANGED <<callVars, edits>>

\* the edges addNext adds with the node of the step: those that target it
\* and whose source is among targetNodes.slice(0, step)
addNextEdges(step) ==
  Filter(mount.edges,
         LAMBDA e : /\ e.target = mount.nodes[step].id
                    /\ \E i \in 1..step : mount.nodes[i].id = e.source)

\* addNext, the build's timer callback: the next target node and its edges
\* are appended, or, after the last node, isBuilding and the guard flag are
\* cleared
addNext ==
  /\ mount.pos = "building"
  /\ IF mount.step >= Len(mount.nodes)
     THEN /\ mount' = [mount EXCEPT !.pos = "done"]
          /\ isInitialLoadRef' = FALSE
          /\ lastOp' = Op("built")
          /\ UNCHANGED <<nodes, edges, pristine>>
          /\ UNCHANGED panelVars
          /\ UNCHANGED timerVars
     ELSE LET step == mount.step + 1
              ns == Append(nodes, mount.nodes[step])
              es == edges \o addNextEdges(step)
          IN /\ mount' = [mount EXCEPT !.step = step]
             /\ nodes' = ns
             /\ edges' = es
             /\ UNCHANGED isInitialLoadRef
             /\ OutputPanelEffect(ns, es, panelView)
             /\ AutoSaveEffect(ns, es, currentSessionId, FALSE)
             /\ pristine' = FALSE
             /\ lastOp' = NoOp
  /\ UNCHANGED <<clock, selectedNode, panelView, currentSessionId, guardTimers, epoch>>
  /\ UNCHANGED <<callVars, edits>>

saveSessionAlwaysSaves(t) ==
  LET empty == FALSE
      kind == IF t.sid # 0 THEN "update" ELSE "create"
  IN /\ t \in saveTimers
     /\ calls < MaxCalls
     /\ saveTimers' = saveTimers \ {t}
     /\ burst' = 0
     /\ lastFire' = [muts |-> burst, issued |-> IF empty THEN 0 ELSE 1,
                     empty |-> Len(t.nodes) = 0 /\ Len(t.edges) = 0, sid |-> t.sid]
     /\ IF empty
        THEN UNCHANGED <<inflight, isSaving, calls, createCalls, lastCall>>
        ELSE /\ isSaving' = TRUE
             /\ calls' = calls + 1
             /\ createCalls' = IF kind = "create" THEN createCalls + 1 ELSE createCalls
             /\ inflight' = inflight \cup
                  {[n |-> calls + 1, kind |-> kind, sid |-> t.sid,
                    nodes |-> t.nodes, edges |-> t.edges, epoch |-> epoch]}
             /\ lastCall' = [kind |-> kind, sid |-> t.sid, epoch |-> epoch,
                             pristine |-> pristine]
     /\ lastOp' = NoOp
     /\ UNCHANGED <<nodes, edges, clock, edits, selectedNode, panelView,
                    currentSessionId, isInitialLoadRef, saveTimeoutRef,
                    guardTimers, mount, lastSaved, nextSessionId, epoch,
                    failures, pristine>>
     /\ UNCHANGED panelVars

\* the debounce timer t fires and runs the saveSession of the render it
\* closed over, up to the await
saveSession(t) ==
  LET empty == Len(t.nodes) = 0 /\ Len(t.edges) = 0 /\ t.sid = 0
      kind == IF t.sid # 0 THEN "update" ELSE "create"
  IN /\ t \in saveTimers
     /\ calls < MaxCalls
     /\ saveTimers' = saveTimers \ {t}
     /\ burst' = 0
     /\ lastFire' = [muts |-> burst, issued |-> IF empty THEN 0 ELSE 1,
                     empty |-> Len(t.nodes) = 0 /\ Len(t.edges) = 0, sid |-> t.sid]
     /\ IF empty
        THEN UNCHANGED <<inflight, isSaving, calls, createCalls, lastCall>>
        ELSE /\ isSaving' = TRUE
             /\ calls' = calls + 1
             /\ createCalls' = IF kind = "create" THEN createCalls + 1 ELSE createCalls
             /\ inflight' = inflight \cup
                  {[n |-> calls + 1, kind |-> kind, sid |-> t.sid,
                    nodes |-> t.nodes, edges |-> t.edges, epoch |-> epoch]}
             /\ lastCall' = [kind |-> kind, sid |-> t.sid, epoch |-> epoch,
                             pristine |-> pristine]
     /\ lastOp' = NoOp
     /\ UNCHANGED <<nodes, edges, clock, edits, selectedNode, panelView,
                    currentSessionId, isInitialLoadRef, saveTimeoutRef,
                    guardTimers, mount, lastSaved, nextSessionId, epoch,
                    failures, pristine>>
     /\ UNCHANGED panelVars

saveSessionSettlesRetries(c, ok) ==
  /\ c \in inflight
  /\ inflight' = inflight \ {c}
  /\ IF ok
     THEN /\ lastSaved' = TRUE
          /\ IF c.kind = "create"
             THEN /\ currentSessionId' = nextSessionId
                  /\ nextSessionId' = nextSessionId + 1
             ELSE UNCHANGED <<currentSessionId, nextSessionId>>
          /\ UNCHANGED failures
     ELSE /\ failures' = IF c.epoch = epoch THEN failures + 1 ELSE failures
          /\ UNCHANGED <<lastSaved, currentSessionId, nextSessionId>>
  /\ isSaving' = FALSE
  /\ lastOp' = [Op("settle") EXCEPT !.outcome = IF ok THEN "saved" ELSE "failed"]
  /\ UNCHANGED <<nodes, edges, clock, edits, selectedNode, panelView,
                 isInitialLoadRef, guardTimers, mount, epoch, createCalls, calls,
                 pristine, lastFire, lastCall>>
  /\ UNCHANGED panelVars
  /\ IF ok
     THEN UNCHANGED timerVars
     ELSE /\ saveTimers' = saveTimers \cup
               {[tid |-> FreshTimer, nodes |-> nodes, edges |-> edges,
                 sid |-> currentSessionId]}
          /\ saveTimeoutRef' = FreshTimer
          /\ UNCHANGED burst

\* the awaited createSession / updateSession call c settles: the rest of
\* saveSession's try, or its catch, then finally
saveSessionSettles(c, ok) ==
  /\ c \in inflight
  /\ inflight' = inflight \ {c}
  /\ IF ok
     THEN /\ lastSaved' = TRUE
          /\ IF c.kind = "create"
             THEN /\ currentSessionId' = nextSessionId
                  /\ nextSessionId' = nextSessionId + 1
             ELSE UNCHANGED <<currentSessionId, nextSessionId>>
          /\ UNCHANGED failures
     ELSE /\ failures' = IF c.epoch = epoch THEN failures + 1 ELSE failures
          /\ UNCHANGED <<lastSaved, currentSessionId, nextSessionId>>
  /\ isSaving' = FALSE
  /\ lastOp' = [Op("settle") EXCEPT !.outcome = IF ok THEN "saved" ELSE "failed"]
  /\ UNCHANGED <<nodes, edges, clock, edits, selectedNode, panelView,
                 isInitialLoadRef, guardTimers, mount, epoch, createCalls, calls,
                 pristine, lastFire, lastCall>>
  /\ UNCHANGED panelVars
  /\ UNCHANGED timerVars

\* the save-status line of the header: formatLastSaved() is a "Saved ..."
\* text whenever lastSaved is set
saveStatus ==
  IF isSaving THEN "Saving..."
  ELSE IF lastSaved THEN "Saved" ELSE "Not saved yet"

(***************************************************************************)
(* Specifications                                                          *)
(***************************************************************************)
Init ==
  /\ nodes = <<>>
  /\ edges = <<>>
  /\ clock = 0
  /\ selectedNode = <<>>
  /\ panelView = "output"
  /\ code = <<>>
  /\ lastGenerated = <<>>
  /\ syncStatus = "synced"
  /\ edits = 0
  /\ lastOp = NoOp
  /\ currentSessionId = 0
  /\ isInitialLoadRef = TRUE
  /\ saveTimeoutRef = 0
  /\ saveTimers = {}
  /\ guardTimers = 0
  /\ inflight = {}
  /\ mount = NotMounted
  /\ lastSaved = FALSE
  /\ isSaving = FALSE
  /\ nextSessionId = FirstNewSessionId
  /\ epoch = 0
  /\ createCalls = 0
  /\ failures = 0
  /\ calls = 0
  /\ pristine = FALSE
  /\ burst = 0
  /\ lastFire = [muts |-> 0, issued |-> 0, empty |-> TRUE, sid |-> 0]
  /\ lastCall = [kind |-> "none", sid |-> 0, epoch |-> 0, pristine |-> FALSE]

\* the canvas: blocks, edges, serialization and run
GraphTypes == {"dataset", "split"}

AddBlockStep ==
  \E type \in GraphTypes, now \in 0..MaxClock :
    Len(nodes) < MaxNodes /\ addBlock(type, now)
ConnectStep ==
  \E source \in NodeIds(nodes), target \in NodeIds(nodes) :
    Len(edges) < MaxEdges /\ onConnect(source, target)
EdgeClickStep == \E i \in DOMAIN edges : onEdgeClick(i)
NodeClickStep == \E i \in DOMAIN nodes : onNodeClick(i)
DeleteStep ==
  panelView = "config" /\ selectedNode # <<>> /\ deleteNode(selectedNode[1].id)
DownloadTargets == {<<"y">>, <<>>}
DownloadStep ==
  \E target \in DownloadTargets, now \in 0..MaxClock :
    Len(nodes) < MaxNodes /\ handleDownloadDataset(target, now)

Next ==
  \/ loadLatestSessionNone
  \/ AddBlockStep
  \/ DownloadStep
  \/ ConnectStep
  \/ EdgeClickStep
  \/ NodeClickStep
  \/ onPaneClick
  \/ DeleteStep
  \/ run

Spec == Init /\ [][Next]_vars

\* the output panel: generated text, edits, apply and reset
SyncTypes == {"dataset", "split", "model"}
\* [type, key, value]: a field the config panel shows for the block type
ParamChoices ==
  { <<"dataset", "file_path", Str(<<"a.csv">>)>>,
    <<"model", "n_estimators", Num(5000)>>,
    <<"model", "max_depth", NullV>> }
EditLits ==
  { <<"5", "0">>, <<"a", "b", "c">>, <<".">>, <<"Q", "y", "Q">>, <<"Q", "Q">> }

SyncAddBlockStep ==
  \E type \in SyncTypes, now \in 0..MaxClock :
    Len(nodes) < MaxSyncNodes /\ addBlock(type, now)
UpdateParamStep ==
  \E c \in ParamChoices :
    /\ selectedNode # <<>>
    /\ selectedNode[1].blockType = c[1]
    /\ updateParam(c[2], c[3])
\* the user retypes the literal of one marker line: one of EditLits, or the
\* literal the generated text has there; onChange fires only when the text
\* changes
CodeChangeStep ==
  \E i \in DOMAIN code : \E lit \in EditLits \cup {lastGenerated[i].val} :
    /\ code[i].key # ""
    /\ edits < MaxEdits
    /\ WithLiteral(code, i, lit) # code
    /\ handleCodeChange(WithLiteral(code, i, lit))

SyncNext ==
  \/ loadLatestSessionNone
  \/ SyncAddBlockStep
  \/ NodeClickStep
  \/ UpdateParamStep
  \/ onPaneClick
  \/ CodeChangeStep
  \/ handleApplyChanges
  \/ handleReset

SyncSpec == Init /\ [][SyncNext]_vars

\* sessions: load, new session, debounced auto-save and its responses
SessionAddBlockStep ==
  Len(nodes) < MaxSessionNodes /\ addBlock("dataset", clock)

LoadLatestStep == \E session \in SavedSessions : loadLatestSession(session)
LoadSessionStep == \E session \in SavedSessions : loadSession(session)
SaveSessionStep == \E t \in saveTimers : saveSession(t)
SettleStep == \E c \in inflight, ok \in BOOLEAN : saveSessionSettles(c, ok)

\* the id type_auto of a block of the analysis flow: no Date.now() value
AutoId(type) == <<type, -1>>

\* the target the analysis flow hands over, cut down to its first block
SessionTargetNodes ==
  << [id |-> AutoId("dataset"), blockType |-> "dataset",
      params |-> [k \in {"file_path", "target"} |->
                    IF k = "file_path" THEN Str(<<"a.csv">>) ELSE Str(<<"y">>)]] >>
SessionAnimateStep == animatePipelineBuild(SessionTargetNodes, <<>>)

SessionNext ==
  \/ loadLatestSessionNone
  \/ LoadLatestStep
  \/ SessionAnimateStep
  \/ addNext
  \/ SessionAddBlockStep
  \/ NodeClickStep
  \/ DeleteStep
  \/ toggleSessions
  \/ LoadSessionStep
  \/ createNewSession
  \/ guardTimeout
  \/ SaveSessionStep
  \/ SettleStep

SessionSpec == Init /\ [][SessionNext]_vars

\* timers that have been set fire, and pending calls settle
SessionFairness ==
  /\ WF_vars(SaveSessionStep)
  /\ WF_vars(guardTimeout)
  /\ WF_vars(addNext)
  /\ WF_vars(SettleStep)
SessionLiveSpec == SessionSpec /\ SessionFairness

\* the canvas opened on a session record as the persistence service returns
\* it: loadSession restores the record's nodes and edges as they are, also
\* when an edge names a block the record does not hold
StoredNodes ==
  LET d == [id |-> <<"dataset", 0>>, blockType |-> "dataset",
            params |-> DownloadedParams(<<"y">>)]
      m == [id |-> <<"split", 0>>, blockType |-> "split",
            params |-> DefaultParams("split")]
  IN {<<>>, <<d>>, <<m>>, <<d, m>>, <<m, d>>}
StoredIds == {<<"dataset", 0>>, <<"split", 0>>, <<"model", 0>>}
StoredEdge(a, b) == [id |-> <<a, b>>, source |-> a, target |-> b]
StoredPairs == {StoredEdge(a, b) : a \in StoredIds, b \in StoredIds}
StoredEdges ==
  {<<>>} \cup {<<e>> : e \in StoredPairs}
         \cup {s \in {<<e, f>> : e \in StoredPairs, f \in StoredPairs} : s[1] # s[2]}
LoadStoredStep ==
  \E ns \in StoredNodes, es \in StoredEdges :
    loadLatestSession([id |-> 1, nodes |-> ns, edges |-> es])

StoredNext ==
  \/ LoadStoredStep
  \/ run
  \/ EdgeClickStep
  \/ NodeClickStep
  \/ DeleteStep
  \/ onPaneClick

StoredSpec == Init /\ [][StoredNext]_vars

\* the canvas opened from the analysis flow: the build of a target graph,
\* with the panel actions running beside it
AutoNode(type) ==
  [id |-> AutoId(type), blockType |-> type, params |-> DefaultParams(type)]
AutoEdge(a, b) ==
  [id |-> <<AutoId(a), AutoId(b)>>, source |-> AutoId(a), target |-> AutoId(b)]
\* the targets: the chain of the analysis flow cut down to three blocks, and
\* the same blocks and edges with the nodes array in other orders
AnimateTargetNodes ==
  { <<AutoNode("dataset"), AutoNode("split"), AutoNode("model")>>,
    <<AutoNode("split"), AutoNode("dataset"), AutoNode("model")>>,
    <<AutoNode("model"), AutoNode("split"), AutoNode("dataset")>>,
    <<AutoNode("dataset"), AutoNode("split")>>,
    <<AutoNode("dataset")>> }
AnimateTargetEdges ==
  { <<AutoEdge("dataset", "split"), AutoEdge("split", "model")>>,
    <<AutoEdge("split", "model"), AutoEdge("dataset", "split")>>,
    <<AutoEdge("dataset", "split")>>,
    <<>> }
AnimateStartStep ==
  \E targetNodes \in AnimateTargetNodes, targetEdges \in AnimateTargetEdges :
    animatePipelineBuild(targetNodes, targetEdges)

AnimateNext ==
  \/ AnimateStartStep
  \/ addNext
  \/ mount.pos # "pending" /\ NodeClickStep
  \/ mount.pos # "pending" /\ onPaneClick
  \/ mount.pos # "pending" /\ toggleSessions

\* the initial-load effect runs, and the build's timer fires
AnimateSpec ==
  /\ Init /\ [][AnimateNext]_vars
  /\ WF_vars(AnimateStartStep) /\ WF_vars(addNext)

\* a larger graph built block by block: the k-th block added has the k-th
\* type of BuildTypes (metrics blocks after those) and is added at time k
BuildTypes == <<"dataset", "split", "model", "trainer">>
BuildAddBlockStep ==
  /\ Len(nodes) < MaxBuildNodes
  /\ addBlock(IF Len(nodes) < Len(BuildTypes) THEN BuildTypes[Len(nodes) + 1]
              ELSE "metrics",
              Len(nodes))
\* connections are drawn downstream, from a block to one added after it
BuildConnectStep ==
  \E i \in DOMAIN nodes, j \in DOMAIN nodes :
    /\ i < j
    /\ Len(edges) < MaxBuildEdges
    /\ onConnect(nodes[i].id, nodes[j].id)

BuildNext ==
  \/ BuildAddBlockStep
  \/ BuildConnectStep
  \/ EdgeClickStep

BuildSpec == Init /\ [][BuildNext]_vars

(***************************************************************************)
(* Properties of the canvas and the serializer (Spec)                      *)
(***************************************************************************)
Successors(es, x) == {es[i].target : i \in {j \in DOMAIN es : es[j].source = x}}

RECURSIVE ReachableFrom(_, _, _)
ReachableFrom(es, frontier, seen) ==
  LET next == UNION {Successors(es, x) : x \in frontier} \ seen
  IN IF next = {} THEN seen ELSE ReachableFrom(es, next, seen \cup next)

\* x reaches y along one or more edges
Reaches(es, x, y) == y \in ReachableFrom(es, {x}, {})
Acyclic(es) == \A x \in connectedNodeIds(es) : ~Reaches(es, x, x)

Touches(id, es) == \E i \in DOMAIN es : es[i].source = id \/ es[i].target = id
OutputIds(out) == {out[i].id : i \in DOMAIN out}

\* C1: for an acyclic graph, whatever the order of the nodes array, every
\* edge (s,t) with both endpoints in the serializePipeline output has s at an
\* earlier index than t.
C1_DependencyOrder ==
  LET out == serializePipeline(nodes, edges)
  IN Acyclic(edges) =>
       \A e \in DOMAIN edges : \A i \in DOMAIN out, j \in DOMAIN out :
         (out[i].id = edges[e].source /\ out[j].id = edges[e].target) => i < j

\* the edges hold a mutual pair A->B, B->A between two blocks of the graph
MutualPair(ns, es) ==
  \E a \in NodeIds(ns), b \in NodeIds(ns) :
    /\ a # b
    /\ \E i \in DOMAIN es : es[i].source = a /\ es[i].target = b
    /\ \E i \in DOMAIN es : es[i].source = b /\ es[i].target = a

\* C7: compiling a graph that holds a 2-block mutual edge pair fails with a
\* CyclicGraphError (and does not loop): a run of such a graph ends in that
\* error, not in an alert about something else or a submitted pipeline.
C7_CycleDetected ==
  (lastOp.op = "run" /\ MutualPair(lastOp.nodes, lastOp.edges))
    => lastOp.outcome = "CyclicGraphError"

MarkerParam(key) ==
  CASE key = "FILE_PATH" -> "file_path"
    [] key = "TARGET_COLUMN" -> "target"
    [] key = "TEST_SIZE" -> "test_size"
    [] key = "TASK_TYPE" -> "task"
    [] key = "N_ESTIMATORS" -> "n_estimators"
    [] key = "MAX_DEPTH" -> "max_depth"
    [] OTHER -> ""
MarkerParams ==
  {"file_path", "target", "test_size", "task", "n_estimators", "max_depth"}

\* the position, in the sorted blocks, of the section that holds a line
RECURSIVE SectionOf(_, _, _, _, _)
SectionOf(blocks, taskType, line, start, k) ==
  IF blocks = <<>> THEN 0
  ELSE LET len == Len(BlockLines(Head(blocks), taskType))
       IN IF line <= start + len THEN k
          ELSE SectionOf(Tail(blocks), TaskAfter(Head(blocks), taskType),
                         line, start + len, k + 1)

\* params a and b agree on key k: both lack it or both hold the same value
SameParam(a, b, k) ==
  (k \in DOMAIN a <=> k \in DOMAIN b) /\ (k \in DOMAIN a => a[k] = b[k])

\* the lines of the applied text that differ from the text generated from
\* the graph the apply started from
EditedLines ==
  LET gen == generatePythonCode(lastOp.nodes, lastOp.edges)
  IN {i \in DOMAIN gen : lastOp.text[i] # gen[i]}

\* C5: editing only one marker in the generated text and applying changes
\* only the parameter that marker covers, in the block whose section holds
\* it; every other parameter of every block is unchanged.
C5_PartialPatchSafety ==
  (lastOp.op = "apply" /\ Cardinality(EditedLines) = 1) =>
    LET line == CHOOSE i \in EditedLines : TRUE
        blocks == sorted(lastOp.nodes, lastOp.edges)
        owner == blocks[SectionOf(blocks, DefaultTask, line, Len(HeaderLines), 1)]
        covered == MarkerParam(lastOp.text[line].key)
    IN \A i \in DOMAIN nodes :
         \A k \in (DOMAIN nodes[i].params) \cup (DOMAIN lastOp.nodes[i].params) :
           \/ nodes[i].id = owner.id /\ k = covered
           \/ SameParam(nodes[i].params, lastOp.nodes[i].params, k)

\* C6: generating text, parsing it unedited and applying the patch leaves
\* the marker-covered parameters of every block as they were, blocks whose
\* parameters are empty or absent included.
C6_RoundTrip ==
  (lastOp.op = "apply" /\ EditedLines = {}) =>
    \A i \in DOMAIN nodes : \A k \in MarkerParams :
      SameParam(nodes[i].params, lastOp.nodes[i].params, k)

\* a numeric marker whose literal holds a character that is no digit or dot
Malformed(text) ==
  \E i \in DOMAIN text :
    /\ text[i].key \in {"TEST_SIZE", "N_ESTIMATORS", "MAX_DEPTH"}
    /\ \E j \in DOMAIN text[i].val : text[i].val[j] \notin Digits \cup {"."}

\* C8: on apply of a text with a non-numeric value in a numeric marker, the
\* sync status becomes Error and no block's parameters change.
C8_MalformedApplyIsError ==
  (lastOp.op = "apply" /\ Malformed(lastOp.text)) =>
    /\ syncStatus = "error"
    /\ \A i \in DOMAIN nodes : nodes[i].params = lastOp.nodes[i].params

\* the patch the applied text holds for a block
PatchFor(node) ==
  IF node.blockType \in {"dataset", "split", "model"}
  THEN parseCodeToConfig(lastOp.text)[node.blockType]
  ELSE EmptyParams

\* C9: applying a parsed patch is a per-block merge: in a block whose type
\* received a non-empty patch every key outside the patch keeps its value,
\* and a block whose type received an empty patch is returned unchanged.
C9_ApplyIsMerge ==
  lastOp.op = "apply" =>
    /\ Len(nodes) = Len(lastOp.nodes)
    /\ \A i \in DOMAIN nodes :
         LET was == lastOp.nodes[i]
             patch == PatchFor(was)
         IN IF DOMAIN patch # {}
            THEN /\ nodes[i].id = was.id
                 /\ nodes[i].blockType = was.blockType
                 /\ \A k \in (DOMAIN was.params) \ (DOMAIN patch) :
                      k \in DOMAIN nodes[i].params /\ nodes[i].params[k] = was.params[k]
                 /\ \A k \in DOMAIN patch : nodes[i].params[k] = patch[k]
            ELSE nodes[i] = was

\* an apply has merged a non-empty patch into a block that holds a key the
\* patch lacks, next to a block whose type got an empty patch
C9_Witness ==
  /\ lastOp.op = "apply"
  /\ \E i \in DOMAIN nodes :
       /\ DOMAIN PatchFor(lastOp.nodes[i]) # {}
       /\ (DOMAIN lastOp.nodes[i].params) \ (DOMAIN PatchFor(lastOp.nodes[i])) # {}
       /\ nodes[i] # lastOp.nodes[i]
  /\ \E i \in DOMAIN nodes :
       DOMAIN PatchFor(lastOp.nodes[i]) = {} /\ DOMAIN lastOp.nodes[i].params # {}

(***************************************************************************)
(* Properties of the session auto-save (SessionSpec)                       *)
(***************************************************************************)
\* C2: within one editing session (from a load or new-session until the
\* next one) saveSession calls createSession at most once, whatever the
\* interleaving of mutations, timer firings and responses.  Stated for the
\* sessions in which no persistence call has failed, so that a second create
\* is never the retry of a failed one.
C2_CreateAtMostOnce ==
  failures = 0 => createCalls <= 1

\* C3: after a load (from the session panel or from the load-latest path on
\* mount) has replaced nodes and edges, no createSession or updateSession
\* call is issued until a user mutation occurs: no persistence call is ever
\* issued while the graph is still the one the load put there.
C3_LoadSuppression ==
  ~lastCall.pristine

\* C4 as stated: at most one debounce timer is pending, and the firing that
\* ends a burst of k >= 1 mutations issues exactly one persistence call.
C4_ExactlyOneCallPerBurst ==
  /\ Cardinality(saveTimers) <= 1
  /\ lastFire.muts >= 1 => lastFire.issued = 1

\* C4 amended: at most one debounce timer is pending, and the firing that
\* ends a burst of k >= 1 mutations issues exactly one persistence call,
\* unless the graph it saves is empty and no session id was bound when the
\* last mutation of the burst was rendered: then it issues none.
C4_OneTimerOneCallUnlessEmpty ==
  /\ Cardinality(saveTimers) <= 1
  /\ lastFire.muts >= 1 =>
       lastFire.issued = IF lastFire.empty /\ lastFire.sid = 0 THEN 0 ELSE 1

\* a burst of two or more mutations has ended in one firing and one call,
\* and a later mutation has a timer pending again
C4_Witness ==
  /\ lastFire.muts >= 2
  /\ lastFire.issued = 1
  /\ Cardinality(saveTimers) = 1
  /\ burst >= 1

(***************************************************************************)
(* Properties of larger graphs (BuildSpec)                                 *)
(***************************************************************************)
HasEdge(es, a, b) == \E i \in DOMAIN es : es[i].source = a /\ es[i].target = b

\* d is reached from a through b and through c: two paths of two edges each
Diamond(ns, es) ==
  \E a \in NodeIds(ns), b \in NodeIds(ns), c \in NodeIds(ns), d \in NodeIds(ns) :
    /\ Cardinality({a, b, c, d}) = 4
    /\ HasEdge(es, a, b) /\ HasEdge(es, b, d)
    /\ HasEdge(es, a, c) /\ HasEdge(es, c, d)

Occurrences(seq, id) == Cardinality({i \in DOMAIN seq : seq[i].id = id})

\* C11: in a graph where a block is reached from a common ancestor through
\* two independent two-edge paths, every block of the graph appears exactly
\* once in the output of the generator's dependency sort.
C11_DiamondOnce ==
  Diamond(nodes, edges) =>
    \A id \in NodeIds(nodes) : Occurrences(sorted(nodes, edges), id) = 1

\* a diamond has been connected and its four blocks are all in the sort
C11_Witness ==
  /\ Diamond(nodes, edges)
  /\ Len(sorted(nodes, edges)) = 4

(***************************************************************************)
(* Properties of the sync status (SyncSpec)                                *)
(***************************************************************************)
\* C12: whenever the sync status is Synced the displayed text equals the
\* last-generated text; this holds after generation, reset and apply.
C12_SyncedShowsGenerated ==
  syncStatus = "synced" => code = lastGenerated

\* an apply has ended Synced with the regenerated text on display in place
\* of the edited text it parsed
C12_Witness ==
  /\ lastOp.op = "apply"
  /\ panelView = "output"
  /\ syncStatus = "synced"
  /\ code = lastGenerated
  /\ code # lastOp.text

\* C13: the sync status is Modified only while the displayed text differs
\* from the last-generated text.
C13_ModifiedMeansDiffers ==
  syncStatus = "modified" => code # lastGenerated

\* C14: Reset from Modified puts the last-generated text (the text of the
\* graph as it is) on display, sets the status to Synced and leaves nodes,
\* edges and every block's parameters as they were.
C14_ResetRestores ==
  lastOp.op = "reset" =>
    /\ code = lastGenerated
    /\ code = generatePythonCode(lastOp.nodes, lastOp.edges)
    /\ syncStatus = "synced"
    /\ nodes = lastOp.nodes
    /\ edges = lastOp.edges

\* a reset has discarded an edited text of a graph that has blocks
C14_Witness ==
  /\ lastOp.op = "reset"
  /\ nodes # <<>>
  /\ lastOp.text # code
  /\ syncStatus = "synced"

(***************************************************************************)
(* Properties of the persistence calls (SessionSpec)                       *)
(***************************************************************************)
\* C15: a reconciliation that fires for a graph with no nodes and no edges
\* while no session id is bound (a pending timer never holds an id when
\* none is bound) issues no persistence call, and no createSession call is
\* ever issued with an empty graph.
C15_NoEmptyCreate ==
  /\ \A t \in saveTimers : t.sid # 0 => currentSessionId # 0
  /\ (lastFire.empty /\ lastFire.sid = 0) => lastFire.issued = 0
  /\ \A c \in inflight :
       c.kind = "create" => (Len(c.nodes) > 0 \/ Len(c.edges) > 0)

\* mutations have emptied an unbound graph and the firing that followed
\* them issued no call
C15_Witness ==
  /\ lastFire.muts >= 1
  /\ lastFire.empty
  /\ lastFire.sid = 0
  /\ lastFire.issued = 0
  /\ currentSessionId = 0
  /\ inflight = {}

(***************************************************************************)
(* Properties of run and of deletion (Spec)                                *)
(***************************************************************************)
\* C16: whenever serializePipeline returns an empty list (no nodes, or
\* nodes with no edges), run ends in a local validation message and
\* runPipeline is not called.
C16_NoEmptySubmission ==
  (lastOp.op = "run" /\ Len(serializePipeline(lastOp.nodes, lastOp.edges)) = 0) =>
    lastOp.outcome \in {"alert: add a block", "alert: no connected blocks"}

\* a graph with a fully configured dataset block but no edge has been run
\* and got the message about unconnected blocks
C16_Witness ==
  /\ lastOp.op = "run"
  /\ lastOp.outcome = "alert: no connected blocks"
  /\ \E i \in DOMAIN lastOp.nodes :
       /\ Truthy(lastOp.nodes[i].params, "file_path")
       /\ Truthy(lastOp.nodes[i].params, "target")

\* C17: every edge's source and target are ids of blocks currently in the
\* graph, whatever blocks were added, connected, disconnected and deleted.
C17_NoDanglingEdge ==
  \A i \in DOMAIN edges :
    edges[i].source \in NodeIds(nodes) /\ edges[i].target \in NodeIds(nodes)

\* a block with an edge to a block that stays has just been deleted
C17_Witness ==
  /\ lastOp.op = "delete"
  /\ Len(nodes) > 0
  /\ \E i \in DOMAIN lastOp.edges :
       /\ lastOp.edges[i].source \in NodeIds(nodes)
       /\ lastOp.edges[i].target \notin NodeIds(nodes)

(***************************************************************************)
(* Properties of failed and overlapping persistence calls (SessionSpec)    *)
(***************************************************************************)
\* the step is the catch and finally of a failed createSession / updateSession
FailedSettle ==
  /\ inflight' \subseteq inflight /\ inflight' # inflight
  /\ lastOp'.op = "settle" /\ lastOp'.outcome = "failed"

\* C18: a failed persistence call schedules no timer and no call, leaves
\* nodes, edges and the bound session id as they were, and a later graph
\* mutation made with the guard flag clear leaves a debounce timer pending on
\* the new graph.
C18_FailureNotRetried ==
  [][ /\ FailedSettle =>
           /\ nodes' = nodes /\ edges' = edges
           /\ currentSessionId' = currentSessionId
           /\ saveTimers' = saveTimers /\ saveTimeoutRef' = saveTimeoutRef
           /\ guardTimers' = guardTimers
           /\ isInitialLoadRef' = isInitialLoadRef
           /\ calls' = calls /\ createCalls' = createCalls
      /\ ( /\ failures > 0 \/ lastOp.outcome = "failed"
           /\ <<nodes, edges>>' # <<nodes, edges>>
           /\ ~isInitialLoadRef' ) =>
           \E t \in saveTimers' :
             /\ t.tid = saveTimeoutRef' /\ t.tid # saveTimeoutRef
             /\ t.nodes = nodes' /\ t.edges = edges' ]_vars

\* the only call made so far has failed, the session is still unbound, and
\* the deletion made after the failure has a debounce timer pending
C18_Witness ==
  /\ calls = 1 /\ failures = 1 /\ inflight = {}
  /\ currentSessionId = 0
  /\ lastOp.op = "delete"
  /\ \E t \in saveTimers : t.tid = saveTimeoutRef /\ t.nodes = nodes

\* C19: a mutation made while a persistence call is in flight leaves that
\* call in flight, and the timer it schedules fires only after the call has
\* settled: two persistence calls are never in flight at the same time.
C19_OneCallInFlight ==
  /\ [](Cardinality(inflight) <= 1)
  /\ [][ (inflight # {} /\ <<nodes, edges>>' # <<nodes, edges>>) =>
            inflight \subseteq inflight' ]_vars

(***************************************************************************)
(* The linear chain and its recompilation (BuildSpec)                      *)
(***************************************************************************)
\* the nodes are exactly [A:dataset, B:split, C:model, D:trainer], in that order
IsChainNodes(ns) ==
  /\ Len(ns) = 4
  /\ \A i \in 1..4 : ns[i].blockType = BuildTypes[i]
  /\ Cardinality(NodeIds(ns)) = 4

EdgePairs(es) == {<<es[i].source, es[i].target>> : i \in DOMAIN es}

PipelineIds(ns, es) ==
  LET p == serializePipeline(ns, es) IN [i \in DOMAIN p |-> p[i].id]

\* C20: blocks [A:dataset, B:split, C:model, D:trainer] with edges A->B,
\* B->C, C->D compile to the order [A,B,C,D]; once edge B->C is deleted the
\* compiled output holds A and B only.
C20_ChainThenCut ==
  IsChainNodes(nodes) =>
    LET A == nodes[1].id
        B == nodes[2].id
        C == nodes[3].id
        D == nodes[4].id
    IN /\ EdgePairs(edges) = {<<A, B>>, <<B, C>>, <<C, D>>} =>
            PipelineIds(nodes, edges) = <<A, B, C, D>>
       /\ EdgePairs(edges) = {<<A, B>>, <<C, D>>} =>
            PipelineIds(nodes, edges) = <<A, B>>

\* C20 as the code has it: the chain compiles to [A,B,C,D]; after edge B->C
\* is deleted C and D are still joined by C->D, so the output is still
\* [A,B,C,D]; it is [A,B] once C->D is deleted as well.
C20_CutKeepsConnectedBlocks ==
  IsChainNodes(nodes) =>
    LET A == nodes[1].id
        B == nodes[2].id
        C == nodes[3].id
        D == nodes[4].id
    IN /\ EdgePairs(edges) = {<<A, B>>, <<B, C>>, <<C, D>>} =>
            PipelineIds(nodes, edges) = <<A, B, C, D>>
       /\ EdgePairs(edges) = {<<A, B>>, <<C, D>>} =>
            PipelineIds(nodes, edges) = <<A, B, C, D>>
       /\ EdgePairs(edges) = {<<A, B>>} =>
            PipelineIds(nodes, edges) = <<A, B>>

\* edge B->C of the chain has just been deleted by a click on it
C20_Witness ==
  /\ IsChainNodes(nodes)
  /\ lastOp.op = "disconnect"
  /\ lastOp.nodes = nodes
  /\ EdgePairs(lastOp.edges) =
       {<<nodes[1].id, nodes[2].id>>, <<nodes[2].id, nodes[3].id>>,
        <<nodes[3].id, nodes[4].id>>}
  /\ EdgePairs(edges) =
       {<<nodes[1].id, nodes[2].id>>, <<nodes[3].id, nodes[4].id>>}
  /\ Len(serializePipeline(nodes, edges)) = 4

(***************************************************************************)
(* The pipeline specification as a projection of the graph                 *)
(***************************************************************************)
\* the indices of the nodes that touch an edge, and of the edges into an id
TouchingIdx(ns, es) ==
  {i \in DOMAIN ns :
     \E j \in DOMAIN es : es[j].source = ns[i].id \/ es[j].target = ns[i].id}
EdgesInto(es, id) == {j \in DOMAIN es : es[j].target = id}
\* the r-th smallest member of a set of indices
Nth(S, r) == CHOOSE x \in S : Cardinality({y \in S : y <= x}) = r

\* C21: every entry returned by serializePipeline has the id, block type and
\* params of one node of the graph (the k-th entry those of the k-th node
\* that touches an edge) and its inputs are exactly the sources of the edges
\* that target the node, in edge-list order.
C21_PureProjection ==
  LET p == serializePipeline(nodes, edges)
      T == TouchingIdx(nodes, edges)
  IN /\ Len(p) = Cardinality(T)
     /\ \A k \in DOMAIN p :
          LET n == nodes[Nth(T, k)]
              J == EdgesInto(edges, n.id)
          IN /\ DOMAIN p[k] = {"id", "type", "params", "inputs"}
             /\ p[k].id = n.id
             /\ p[k].type = n.blockType
             /\ p[k].params = n.params
             /\ Len(p[k].inputs) = Cardinality(J)
             /\ \A r \in DOMAIN p[k].inputs :
                  p[k].inputs[r] = edges[Nth(J, r)].source

\* a block has two inputs, connected in the opposite order to that of the
\* nodes array, and an unconnected block is in the graph
C21_Witness ==
  \E k \in DOMAIN serializePipeline(nodes, edges) :
    LET e == serializePipeline(nodes, edges)[k]
    IN /\ Len(e.inputs) = 2
       /\ e.inputs[1] = nodes[2].id
       /\ e.inputs[2] = nodes[1].id
       /\ Len(serializePipeline(nodes, edges)) < Len(nodes)

(***************************************************************************)
(* Block identity (Spec)                                                   *)
(***************************************************************************)
\* C22: no two blocks of the graph have the same id, also when two blocks of
\* the same type are added with no clock advance between the additions.
C22_UniqueIds ==
  \A i \in DOMAIN nodes : \A j \in DOMAIN nodes :
    nodes[i].id = nodes[j].id => i = j

(***************************************************************************)
(* The save status after a failure (SessionSpec)                           *)
(***************************************************************************)
\* C23: after a createSession or updateSession call has failed, the save
\* status does not report the graph as saved, also when an earlier call had
\* succeeded.
C23_FailureShowsNotSaved ==
  (lastOp.op = "settle" /\ lastOp.outcome = "failed") => saveStatus # "Saved"

(***************************************************************************)
(* The generator's dependency sort (Spec)                                  *)
(***************************************************************************)
\* C24: for an acyclic graph, whatever the order of the nodes array, every
\* edge (s,t) between present nodes has s before t in the generator's sort,
\* the order in which the sections of the text are written.
C24_SortRespectsEdges ==
  LET out == sorted(nodes, edges)
  IN Acyclic(edges) =>
       /\ \A e \in DOMAIN edges : \A i \in DOMAIN out, j \in DOMAIN out :
            (out[i].id = edges[e].source /\ out[j].id = edges[e].target) => i < j
       /\ generatePythonCode(nodes, edges) =
            (IF Len(nodes) = 0 THEN <<>>
             ELSE HeaderLines \o SectionLines(out, DefaultTask))

\* the only edge runs from the second node of the array to the first, and
\* the sort has put the second node first
C24_Witness ==
  /\ Len(nodes) = 2 /\ Len(edges) = 1
  /\ nodes[1].id # nodes[2].id
  /\ edges[1].source = nodes[2].id /\ edges[1].target = nodes[1].id
  /\ sorted(nodes, edges) = <<nodes[2], nodes[1]>>
  /\ panelView = "output" /\ code = generatePythonCode(nodes, edges)

(***************************************************************************)
(* The text as a function of the pipeline specification (Spec)             *)
(***************************************************************************)
\* the graph without its blocks that touch no edge: it compiles to the same
\* pipeline specification as the graph itself
ConnectedOnly(ns, es) == Filter(ns, LAMBDA node : node.id \in connectedNodeIds(es))

\* C25: two graphs that compile to the same specification generate the same
\* text: the graph and the graph without its unconnected blocks generate
\* identical text, so an unconnected block contributes no line.
C25_TextFollowsSpecification ==
  /\ serializePipeline(ConnectedOnly(nodes, edges), edges) =
       serializePipeline(nodes, edges)
  /\ generatePythonCode(ConnectedOnly(nodes, edges), edges) =
       generatePythonCode(nodes, edges)

(***************************************************************************)
(* Dangling edges (StoredSpec)                                             *)
(***************************************************************************)
\* the ids that edges name and that are no block of the graph
MissingIds(ns, es) == connectedNodeIds(es) \ NodeIds(ns)

\* serializePipeline and the generator's sort have no throw statement and
\* every lookup in them is defined for every key: each returns a value
serializePipelineThrows(ns, es) == FALSE
sortedThrows(ns, es) == FALSE

\* the returned specification names a missing id among some block's inputs
ContainsMissing(ns, es) ==
  \E k \in DOMAIN serializePipeline(ns, es) :
    SeqToSet(serializePipeline(ns, es)[k].inputs) \cap MissingIds(ns, es) # {}
\* the returned value has no entry for a missing id
SkipsMissing(out, ns, es) ==
  \E id \in MissingIds(ns, es) : \A k \in DOMAIN out : out[k].id # id

\* C26: when an edge names a block that is not in the graph, compilation
\* fails: serializePipeline returns no value that holds the missing id among
\* the inputs or leaves the missing block out, and neither does the
\* generator's sort.
C26_DanglingFailsLoudly ==
  MissingIds(nodes, edges) # {} =>
    /\ serializePipelineThrows(nodes, edges)
         \/ ( /\ ~ContainsMissing(nodes, edges)
              /\ ~SkipsMissing(serializePipeline(nodes, edges), nodes, edges) )
    /\ sortedThrows(nodes, edges)
         \/ ~SkipsMissing(sorted(nodes, edges), nodes, edges)

(***************************************************************************)
(* The bound session id across loads (SessionSpec)                         *)
(***************************************************************************)
\* C28: between loads and new-session starts the bound session id changes
\* only by the response of a createSession call issued since the last of
\* them: the response of a call issued before a load does not rebind the id.
C28_StaleCreateDoesNotRebind ==
  [][ (currentSessionId' # currentSessionId /\ epoch' = epoch) =>
        \E c \in inflight \ inflight' : c.kind = "create" /\ c.epoch = epoch ]_vars

(***************************************************************************)
(* Persistence of every mutation (SessionLiveSpec)                         *)
(***************************************************************************)
\* a deletion or the end of an animated build has left a graph that has
\* something to persist: blocks, or a bound session
MutationToPersist ==
  /\ lastOp.op \in {"delete", "built"}
  /\ Len(nodes) > 0 \/ currentSessionId # 0
\* a createSession or updateSession call carrying the graph is in flight
CarriedByCall == \E c \in inflight : c.nodes = nodes /\ c.edges = edges
\* a load has replaced the graph since, or a new session has been started
Superseded == pristine \/ (Len(nodes) = 0 /\ currentSessionId = 0)

\* C27: after a user mutation, or the last step of an animated build, a
\* createSession or updateSession call that carries the graph with that
\* mutation is eventually issued, also when no further mutation follows
\* (unless a load replaces the graph first).
C27_MutationEventuallyPersisted ==
  MutationToPersist ~> (CarriedByCall \/ Superseded \/ calls >= MaxCalls)

(***************************************************************************)
(* The guard flag across loads and builds (SessionSpec)                    *)
(***************************************************************************)
\* C29: the delayed clear of an earlier loadSession or createNewSession, one
\* that fires while the clear of a later load is still pending, leaves the
\* guard flag set; and while animatePipelineBuild is still adding blocks no
\* auto-save timer is pending.
C29_GuardHeldUntilSettle ==
  /\ [][ (guardTimers' = guardTimers - 1 /\ guardTimers' > 0) =>
            isInitialLoadRef' ]_vars
  /\ [](mount.pos = "building" => saveTimers = {})

(***************************************************************************)
(* The animated build (AnimateSpec)                                        *)
(***************************************************************************)
\* the target edges whose source and target are both target nodes
TargetEdgesBetween ==
  Filter(mount.edges,
         LAMBDA e : /\ e.source \in NodeIds(mount.nodes)
                    /\ e.target \in NodeIds(mount.nodes))

====
